---- MODULE Spec2Model ----
(***************************************************************************)
(* Model of the nvim-plugin-worker scheduled job (src/main.py,             *)
(* src/models.py): a batch run loads the watch-list, and for each locator  *)
(* looks the repository up by url, appends a star-history sample when it   *)
(* exists, fetches metadata and README from GitHub, maps them to a         *)
(* Repository and inserts or updates the document.                         *)
(***************************************************************************)
EXTENDS Integers, Sequences, FiniteSets, TLC

VARIABLES
    watchlist,      \* documents of repo-list.repos (their "url" values)
    github,         \* the GitHub answer per locator when the API is stable
    run,            \* number of batch runs started
    repos,          \* main.py:195  the list get_repo_list returned
    idx,            \* main.py:199  position of the for loop in repos
    pc,             \* position of the process
    update,         \* main.py:201  the update flag of the current pass
    res,            \* main.py:202  the document find_one returned
    info,           \* main.py:106-117  the GitHub answer used by the pass
    outcome,        \* how the current pass ended
    fatal,          \* the exception that ended the process, if any
    store,          \* collection repos.repo, in natural order
    stars_history,  \* collection repos.stars_history, in insertion order
    log,            \* structured log messages of the current run
    len0,           \* number of documents in repos.repo when the run started
    created,        \* locators for which a pass has inserted a document
    path,           \* input of get_repo_name (url.path)
    parsed          \* result of get_repo_name(path)

vars == <<watchlist, github, run, repos, idx, pc, update, res, info, outcome,
          fatal, store, stars_history, log, len0, created,
          path, parsed>>

-----------------------------------------------------------------------------
(* Bounds *)

MaxRuns == 2
MaxWatch == 2
MaxPasses == 4
MaxStars == 0
MaxPathLen == 4

-----------------------------------------------------------------------------
(* Values *)

\* JSON null and an absent key of the API answer.
Null == "null"
Missing == "missing"
\* get_README_from_api returning None.
Absent == "absent"

\* Well-formed watched urls that name a repository (author/repo).
Locators == {"u1", "u2"}
\* "u0": well-formed url with the path "/" ; "bad": not a url at all.
Entries == Locators \cup {"u0", "bad"}

StarValues == (-1) .. MaxStars

\* The absent document (find_one -> None, construct_repo_from_api -> None).
NoDoc == [_id |-> <<0, 0>>, readme |-> "", name |-> "", author |-> "", url |-> "",
          description |-> "", stars |-> 0, language |-> "", last_updated |-> 0]

\* No answer fetched (yet).
NoResp == [status |-> 0, name |-> "", owner |-> "", html_url |-> "",
           description |-> "", stargazers_count |-> 0, language |-> "",
           updated_at |-> 0, readme |-> ""]

\* A non-200 answer of api.github.com/repos/{user}/{repo}.
NotFound == [NoResp EXCEPT !.status = 404]

\* 200 answers: the fields main.py reads, and what the README fetch yields.
OkResponses ==
    [status : {200}, name : {"repo", Missing}, owner : {"owner"},
     html_url : Locators, description : {"desc", Null},
     stargazers_count : StarValues, language : {"lua", Null},
     updated_at : {1}, readme : {"text", Absent}]

Responses == OkResponses \cup {NotFound}

\* The outcomes of a write: pymongo's res.acknowledged, and whether the
\* server applied the write (an unacknowledged write may or may not land).
Writes == {[ack |-> TRUE, applied |-> TRUE], [ack |-> FALSE, applied |-> TRUE],
           [ack |-> FALSE, applied |-> FALSE]}

\* url.path of a watched url, as a sequence of tokens.
UrlPath(u) ==
    CASE u = "u1" -> <<"/", "a", "/", "b">>
      [] u = "u2" -> <<"/", "b", "/", "a">>
      [] OTHER -> <<"/">>

\* Tokens of a path: "/", two name characters, and "S" standing for a
\* literal "https://" inside the path.
Chars == {"/", "a", "b", "S"}

RECURSIVE SeqsUpTo(_)
SeqsUpTo(n) ==
    IF n = 0 THEN {<<>>}
    ELSE LET shorter == SeqsUpTo(n - 1)
         IN shorter \cup {Append(s, c) : s \in {t \in shorter : Len(t) = n - 1},
                                         c \in Chars}

Paths == SeqsUpTo(MaxPathLen)

-----------------------------------------------------------------------------
(* get_repo_name, main.py:44-61 *)

\* str.split("/"): the segments between slashes, empty ones included.
RECURSIVE Split(_)
Split(s) ==
    IF \A i \in 1 .. Len(s) : s[i] # "/" THEN <<s>>
    ELSE LET i == CHOOSE k \in 1 .. Len(s) :
                      s[k] = "/" /\ \A j \in 1 .. k - 1 : s[j] # "/"
         IN <<SubSeq(s, 1, i - 1)>> \o Split(SubSeq(s, i + 1, Len(s)))

\* re.sub(r"https?://", "", path)
StripScheme(s) == SelectSeq(s, LAMBDA c : c # "S")

\* re.sub(r"/$", "", url_str)
StripTrailingSlash(s) ==
    IF Len(s) > 0 /\ s[Len(s)] = "/" THEN SubSeq(s, 1, Len(s) - 1) ELSE s

ParseError == [ok |-> FALSE, user |-> <<>>, repo |-> <<>>]

\* An empty path raises; fewer than two list elements make url_strs[-2]
\* raise IndexError; otherwise the last two elements are returned as they are.
get_repo_name(p) ==
    IF p = <<>> THEN ParseError
    ELSE LET url_strs == Split(StripTrailingSlash(StripScheme(p)))
             n == Len(url_strs)
         IN IF n < 2 THEN ParseError
            ELSE [ok |-> TRUE, user |-> url_strs[n - 1], repo |-> url_strs[n]]

-----------------------------------------------------------------------------
(* The store *)

\* find_one({"url": u}): the first document with that url, or None.
find_one(st, u) ==
    IF \E i \in 1 .. Len(st) : st[i].url = u
    THEN st[CHOOSE i \in 1 .. Len(st) :
                st[i].url = u /\ \A j \in 1 .. i - 1 : st[j].url # u]
    ELSE NoDoc

\* insert_one(dump)
insert_one(st, dump) == Append(st, dump)

\* Variant: the filter hits the last document with that url, not the first.
update_one_last(st, u, dump) ==
    IF \E i \in 1 .. Len(st) : st[i].url = u
    THEN LET i == CHOOSE k \in 1 .. Len(st) :
                      st[k].url = u /\ \A j \in k + 1 .. Len(st) : st[j].url # u
         IN [st EXCEPT ![i] = [dump EXCEPT !._id = st[i]._id]]
    ELSE st

\* Variant: _id is not popped from dump (line 136 missing), so $set writes the
\* freshly drawn id over the stored one.
update_one_set_id(st, u, dump) ==
    IF \E i \in 1 .. Len(st) : st[i].url = u
    THEN LET i == CHOOSE k \in 1 .. Len(st) :
                      st[k].url = u /\ \A j \in 1 .. k - 1 : st[j].url # u
         IN [st EXCEPT ![i] = dump]
    ELSE st

\* update_one({"url": u}, {"$set": dump}) with _id popped from dump: every
\* other field of the first document with that url is overwritten.
update_one(st, u, dump) ==
    IF \E i \in 1 .. Len(st) : st[i].url = u
    THEN LET i == CHOOSE k \in 1 .. Len(st) :
                      st[k].url = u /\ \A j \in 1 .. k - 1 : st[j].url # u
         IN [st EXCEPT ![i] = [dump EXCEPT !._id = st[i]._id]]
    ELSE st

\* Variant: the values of timestamp and stars are swapped.
star_update_swapped(r, now) ==
    [repo_id |-> r._id, timestamp |-> r.stars, stars |-> now]

\* main.py:210-214
star_update(r, now) == [repo_id |-> r._id, timestamp |-> now, stars |-> r.stars]

-----------------------------------------------------------------------------
(* construct_repo_from_api, main.py:73-95; Repository, models.py:8-17 *)

\* str.title()
Title(s) == IF s = "lua" THEN "Lua" ELSE s

\* A missing key raises KeyError, a null description fails the validation of
\* the str field, a null language has no .title(): each returns None.
construct_repo_from_api(api_response, id) ==
    IF \/ api_response.name = Missing
       \/ api_response.description = Null
       \/ api_response.language = Null
    THEN NoDoc
    ELSE [_id |-> id, readme |-> "", name |-> api_response.name,
          author |-> api_response.owner, url |-> api_response.html_url,
          description |-> api_response.description,
          stars |-> api_response.stargazers_count,
          language |-> Title(api_response.language),
          last_updated |-> api_response.updated_at]

-----------------------------------------------------------------------------
(* create_repo_in_db, main.py:98-149 *)

\* Variant: the None check of line 124 is missing, so the document of a
\* failed mapping is written all the same.
create_repo_in_db_no_none_check(rp, exists, resp, w, st, id) ==
    IF ~get_repo_name(UrlPath(rp)).ok THEN [outcome |-> "parse", store |-> st]
    ELSE IF resp.status # 200 THEN [outcome |-> "fetch", store |-> st]
    ELSE IF resp.readme = Absent THEN [outcome |-> "readme", store |-> st]
    ELSE LET repo_info == construct_repo_from_api(resp, id)
             dump == [repo_info EXCEPT !.readme = resp.readme]
             written == IF exists THEN update_one(st, rp, dump)
                        ELSE insert_one(st, dump)
         IN [outcome |-> IF repo_info = NoDoc THEN "map"
                         ELSE IF ~w.ack THEN "ack"
                         ELSE IF exists THEN "updated" ELSE "inserted",
             store |-> IF w.applied THEN written ELSE st]

\* Variant: a README that is None is stored as the empty string instead of
\* raising (line 118-119 missing).
create_repo_in_db_readme_optional(rp, exists, resp, w, st, id) ==
    IF ~get_repo_name(UrlPath(rp)).ok THEN [outcome |-> "parse", store |-> st]
    ELSE IF resp.status # 200 THEN [outcome |-> "fetch", store |-> st]
    ELSE LET repo_info == construct_repo_from_api(resp, id)
             dump == [repo_info EXCEPT
                        !.readme = IF resp.readme = Absent THEN "" ELSE resp.readme]
         IN IF repo_info = NoDoc THEN [outcome |-> "map", store |-> st]
            ELSE IF exists
            THEN [outcome |-> IF w.ack THEN "updated" ELSE "ack",
                  store |-> IF w.applied THEN update_one(st, rp, dump) ELSE st]
            ELSE [outcome |-> IF w.ack THEN "inserted" ELSE "ack",
                  store |-> IF w.applied THEN insert_one(st, dump) ELSE st]

\* Variant: the document is written before the README is looked at, and the
\* README check raises afterwards.
create_repo_in_db_write_first(rp, exists, resp, w, st, id) ==
    IF ~get_repo_name(UrlPath(rp)).ok THEN [outcome |-> "parse", store |-> st]
    ELSE IF resp.status # 200 THEN [outcome |-> "fetch", store |-> st]
    ELSE LET repo_info == construct_repo_from_api(resp, id)
             dump == [repo_info EXCEPT
                        !.readme = IF resp.readme = Absent THEN "" ELSE resp.readme]
             written == IF exists THEN update_one(st, rp, dump)
                        ELSE insert_one(st, dump)
         IN IF repo_info = NoDoc THEN [outcome |-> "map", store |-> st]
            ELSE [outcome |-> IF ~w.ack THEN "ack"
                              ELSE IF resp.readme = Absent THEN "readme"
                              ELSE IF exists THEN "updated" ELSE "inserted",
                  store |-> IF w.applied THEN written ELSE st]

\* Variant: the star count of the answer is written to the existing document
\* before the answer is mapped.
create_repo_in_db_stars_early(rp, exists, resp, w, st, id) ==
    IF ~get_repo_name(UrlPath(rp)).ok THEN [outcome |-> "parse", store |-> st]
    ELSE IF resp.status # 200 THEN [outcome |-> "fetch", store |-> st]
    ELSE IF resp.readme = Absent THEN [outcome |-> "readme", store |-> st]
    ELSE LET repo_info == construct_repo_from_api(resp, id)
             dump == [repo_info EXCEPT !.readme = resp.readme]
             old == find_one(st, rp)
             early == IF exists
                      THEN update_one(st, rp,
                             [old EXCEPT !.stars = resp.stargazers_count])
                      ELSE st
         IN IF repo_info = NoDoc THEN [outcome |-> "map", store |-> early]
            ELSE IF exists
            THEN [outcome |-> IF w.ack THEN "updated" ELSE "ack",
                  store |-> IF w.applied THEN update_one(st, rp, dump) ELSE st]
            ELSE [outcome |-> IF w.ack THEN "inserted" ELSE "ack",
                  store |-> IF w.applied THEN insert_one(st, dump) ELSE st]

\* The result of one call: how it ended and the collection afterwards.
\* "inserted" and "updated" are normal returns, the others are the raised
\* exceptions.
create_repo_in_db(rp, exists, resp, w, st, id) ==
    IF ~get_repo_name(UrlPath(rp)).ok THEN [outcome |-> "parse", store |-> st]
    ELSE IF resp.status # 200 THEN [outcome |-> "fetch", store |-> st]
    ELSE IF resp.readme = Absent THEN [outcome |-> "readme", store |-> st]
    ELSE LET repo_info == construct_repo_from_api(resp, id)
             dump == [repo_info EXCEPT !.readme = resp.readme]
         IN IF repo_info = NoDoc THEN [outcome |-> "map", store |-> st]
            ELSE IF exists
            THEN [outcome |-> IF w.ack THEN "updated" ELSE "ack",
                  store |-> IF w.applied THEN update_one(st, rp, dump) ELSE st]
            ELSE [outcome |-> IF w.ack THEN "inserted" ELSE "ack",
                  store |-> IF w.applied THEN insert_one(st, dump) ELSE st]

-----------------------------------------------------------------------------
(* get_repo_list, main.py:33-41 *)

\* HttpUrl(x["url"]) raises a ValidationError on an entry that is no url.
HttpUrlValid(e) == e # "bad"

get_repo_list(wl) ==
    IF \A i \in 1 .. Len(wl) : HttpUrlValid(wl[i])
    THEN [ok |-> TRUE, list |-> wl]
    ELSE [ok |-> FALSE, list |-> <<>>]

-----------------------------------------------------------------------------
(* The process, main.py:194-224 *)

\* uuid.uuid4() of the Repository constructed in this pass (models.py:9): a
\* pass constructs at most one, so the pass names a value never drawn before.
NewId == <<run, idx>>

\* datetime.now() (main.py:212): time moves on with every pass.
Now == run * (MaxWatch + 1) + idx

WatchLists == UNION {[1 .. n -> Entries] : n \in 0 .. MaxWatch}

InitBase ==
    /\ run = 0
    /\ repos = <<>>
    /\ idx = 0
    /\ update = FALSE
    /\ res = NoDoc
    /\ info = NoResp
    /\ outcome = "none"
    /\ fatal = "none"
    /\ store = <<>>
    /\ stars_history = <<>>
    /\ log = <<>>
    /\ len0 = 0
    /\ created = {}
    /\ parsed = ParseError

Init ==
    /\ InitBase
    /\ watchlist \in WatchLists
    /\ pc = "idle"
    /\ path = <<>>
    /\ github = [l \in Locators |-> NoResp]

\* The scheduler starts the script: main.py:194-199.
StartRun ==
    /\ pc \in {"idle", "crashed"}
    /\ run < MaxRuns
    /\ (run + 1) * Len(watchlist) <= MaxPasses
    /\ run' = run + 1
    /\ LET got == get_repo_list(watchlist)
       IN /\ repos' = got.list
          /\ fatal' = IF got.ok THEN "none" ELSE "watchlist"
          /\ pc' = IF ~got.ok THEN "crashed"
                   ELSE IF Len(got.list) = 0 THEN "idle" ELSE "lookup"
          /\ idx' = IF got.ok /\ Len(got.list) > 0 THEN 1 ELSE 0
    /\ update' = FALSE
    /\ res' = NoDoc
    /\ info' = NoResp
    /\ outcome' = "none"
    /\ log' = <<>>
    /\ len0' = Len(store)
    /\ UNCHANGED <<watchlist, github, store, stars_history, created, path,
                   parsed>>

\* Variant: the history append of lines 209-217 is left out.
Lookup_no_history ==
    /\ pc = "lookup"
    /\ LET found == find_one(store, repos[idx])
       IN /\ res' = found
          /\ update' = (found # NoDoc)
          /\ log' = IF found # NoDoc
                    THEN Append(log, [loc |-> repos[idx], msg |-> "exists"])
                    ELSE log
    /\ pc' = "create"
    /\ info' = NoResp
    /\ outcome' = "none"
    /\ UNCHANGED <<watchlist, github, run, repos, idx, fatal, store,
                   stars_history, len0, created, path, parsed>>

\* main.py:201-207
Lookup ==
    /\ pc = "lookup"
    /\ LET found == find_one(store, repos[idx])
       IN /\ res' = found
          /\ update' = (found # NoDoc)
          /\ pc' = IF found # NoDoc THEN "history" ELSE "create"
          /\ log' = IF found # NoDoc
                    THEN Append(log, [loc |-> repos[idx], msg |-> "exists"])
                    ELSE log
    /\ info' = NoResp
    /\ outcome' = "none"
    /\ UNCHANGED <<watchlist, github, run, repos, idx, fatal, store,
                   stars_history, len0, created, path, parsed>>

\* Variant: the sample is upserted by repo_id (the newest sample of the
\* document is replaced) instead of inserted.
AppendHistory_upsert ==
    /\ pc = "history"
    /\ \E w \in Writes :
          /\ stars_history' =
                IF w.applied
                THEN Append(SelectSeq(stars_history,
                                      LAMBDA x : x.repo_id # res._id),
                            star_update(res, Now))
                ELSE stars_history
          /\ pc' = IF w.ack THEN "create" ELSE "crashed"
          /\ fatal' = IF w.ack THEN "none" ELSE "history"
    /\ UNCHANGED <<watchlist, github, run, repos, idx, update, res, info,
                   outcome, store, log, len0, created, path, parsed>>

\* main.py:209-217: the raise is outside the try of line 220.
AppendHistory ==
    /\ pc = "history"
    /\ \E w \in Writes :
          /\ stars_history' = IF w.applied
                              THEN Append(stars_history, star_update(res, Now))
                              ELSE stars_history
          /\ pc' = IF w.ack THEN "create" ELSE "crashed"
          /\ fatal' = IF w.ack THEN "none" ELSE "history"
    /\ UNCHANGED <<watchlist, github, run, repos, idx, update, res, info,
                   outcome, store, log, len0, created, path, parsed>>

\* main.py:220-224 with the call of create_repo_in_db, given the answer of
\* GitHub and of the store.
Create(resp, w) ==
    /\ pc = "create"
    /\ LET rp == repos[idx]
           r == create_repo_in_db(rp, update, resp, w, store, NewId)
       IN /\ outcome' = r.outcome
          /\ store' = r.store
          /\ info' = IF get_repo_name(UrlPath(rp)).ok THEN resp ELSE NoResp
          /\ log' = IF r.outcome \in {"inserted", "updated"} THEN log
                    ELSE Append(log, [loc |-> rp, msg |-> r.outcome])
          /\ created' = IF r.outcome = "inserted"
                        THEN created \cup {rp} ELSE created
    /\ pc' = "next"
    /\ UNCHANGED <<watchlist, github, run, repos, idx, update, res, fatal,
                   stars_history, len0, path, parsed>>

\* GitHub and the store answer anything.
CreateRepoInDb == \E resp \in Responses, w \in Writes : Create(resp, w)

\* GitHub answers the same for a locator every time.
CreateRepoInDbStable == \E w \in Writes : Create(github[repos[idx]], w)

\* Variant: a locator whose pass failed is tried again before the loop moves
\* on.
NextLocator_retry ==
    /\ pc = "next"
    /\ idx' = IF outcome \in {"inserted", "updated"} THEN idx + 1 ELSE idx
    /\ pc' = IF outcome \in {"inserted", "updated"} /\ idx >= Len(repos)
             THEN "idle" ELSE "lookup"
    /\ UNCHANGED <<watchlist, github, run, repos, update, res, info, outcome,
                   fatal, store, stars_history, log, len0, created, path,
                   parsed>>

\* The for loop moves on (main.py:199, and the continue of line 224).
NextLocator ==
    /\ pc = "next"
    /\ idx' = idx + 1
    /\ pc' = IF idx < Len(repos) THEN "lookup" ELSE "idle"
    /\ UNCHANGED <<watchlist, github, run, repos, update, res, info, outcome,
                   fatal, store, stars_history, log, len0, created, path,
                   parsed>>

Next == StartRun \/ Lookup \/ AppendHistory \/ CreateRepoInDb \/ NextLocator

Spec == Init /\ [][Next]_vars

-----------------------------------------------------------------------------
(* Two runs against an unchanging GitHub *)

InitStable ==
    /\ InitBase
    /\ watchlist \in WatchLists
    /\ pc = "idle"
    /\ path = <<>>
    /\ github \in [Locators -> Responses]

NextStable ==
    StartRun \/ Lookup \/ AppendHistory \/ CreateRepoInDbStable \/ NextLocator

SpecStable == InitStable /\ [][NextStable]_vars

-----------------------------------------------------------------------------
(* get_repo_name on its own *)

InitParse ==
    /\ InitBase
    /\ watchlist = <<>>
    /\ github = [l \in Locators |-> NoResp]
    /\ pc = "parse"
    /\ path \in Paths

Parse ==
    /\ pc = "parse"
    /\ parsed' = get_repo_name(path)
    /\ pc' = "parsed"
    /\ UNCHANGED <<watchlist, github, run, repos, idx, update, res, info,
                   outcome, fatal, store, stars_history, log, len0, created,
                   path>>

NextParse == Parse

SpecParse == InitParse /\ [][NextParse]_vars

-----------------------------------------------------------------------------
(* Properties *)

\* The document of the collection with the given _id.
DocById(st, id) ==
    IF \E i \in 1 .. Len(st) : st[i]._id = id
    THEN st[CHOOSE i \in 1 .. Len(st) : st[i]._id = id]
    ELSE NoDoc

Distinct(seq) == \A i, j \in 1 .. Len(seq) : i # j => seq[i] # seq[j]

\* The answer of GitHub in info maps to a Repository.
Maps(r) == r.status = 200 /\ construct_repo_from_api(r, <<0, 0>>) # NoDoc

\* C1: with GitHub answering the same for a locator every time and a
\* watch-list of distinct locators, a locator for which the first run has
\* inserted a document takes the update branch in the second run, so that no
\* second document is inserted for it.
C1_IdempotentUpsert ==
    Distinct(watchlist) =>
        ((pc \in {"create", "next"} /\ run >= 2 /\ repos[idx] \in created)
            => update)

\* C2: (with a watch-list of distinct locators) no two documents of the
\* repositories collection have the same url.
C2_UniqueUrl ==
    Distinct(watchlist) =>
        \A i, j \in 1 .. Len(store) : i # j => store[i].url # store[j].url

\* C3: the lookup result is the stored document; and when a pass that found a
\* document ends in a successful update, the sample appended in the pass (the
\* newest one) carries the found document's _id and its stars before the
\* update, and the document now carries the stars of the fetched answer.
C3_HistoryOrdering ==
    /\ pc = "history" => res = find_one(store, repos[idx])
    /\ (pc = "next" /\ update /\ outcome = "updated") =>
          /\ Len(stars_history) > 0
          /\ stars_history[Len(stars_history)].repo_id = res._id
          /\ stars_history[Len(stars_history)].stars = res.stars
          /\ DocById(store, res._id).stars = info.stargazers_count

C3_Witness ==
    /\ pc = "next" /\ update /\ outcome = "updated"
    /\ res.stars # info.stargazers_count
    /\ stars_history[Len(stars_history)].stars = res.stars

\* C4: when a run has ended in which every pass found no document (all
\* locators new) and exactly one pass failed, with a mapping failure, every
\* locator has been passed and the collection has grown by exactly N-1.
C4_PartialFailureIsolation ==
    ( /\ pc = "idle" /\ run >= 1 /\ fatal = "none"
      /\ Len(log) = 1
      /\ log[1].msg = "map" ) =>
        /\ idx = Len(repos) + 1
        /\ Len(store) = len0 + Len(repos) - 1

C4_Witness ==
    /\ pc = "idle" /\ run >= 1 /\ fatal = "none"
    /\ Len(repos) = 2 /\ repos[1] # repos[2]
    /\ log = <<[loc |-> repos[1], msg |-> "map"]>>
    /\ Len(store) = len0 + 1

\* C5: a write the store does not acknowledge never ends the process while
\* locators of the watch-list remain to be processed.
C5_AckFailureIsolated == ~(pc = "crashed" /\ idx >= 1 /\ idx < Len(repos))

C7_CreationAtomicity ==
    [][ /\ (pc = "lookup" /\ pc' = "create") =>
              (store' = store /\ stars_history' = stars_history)
        /\ ( /\ pc = "create" /\ ~update /\ pc' = "next"
             /\ info'.status = 200 /\ info'.readme = Absent ) =>
              /\ outcome' = "readme"
              /\ store' = store
              /\ stars_history' = stars_history
              /\ find_one(store', repos[idx]) = NoDoc ]_vars

C7_Witness ==
    /\ pc = "next" /\ ~update /\ outcome = "readme"
    /\ info.status = 200 /\ info.readme = Absent
    /\ find_one(store, repos[idx]) = NoDoc

\* C8: a pass for an existing document that ends in Failed on the metadata
\* fetch, the mapping or the README leaves the document as it was found.
C8_FailedSyncLeavesRecord ==
    (pc = "next" /\ update /\ outcome \in {"fetch", "map", "readme"}) =>
        /\ find_one(store, repos[idx]) = res
        /\ DocById(store, res._id) = res

C8_Witness ==
    /\ pc = "next" /\ update /\ outcome = "map"
    /\ info.stargazers_count # res.stars
    /\ DocById(store, res._id) = res

\* C9: an answer that is complete except that description or language is
\* null is mapped, so the pass does not end in a mapping failure.
C9_NullCoercion ==
    ( /\ pc = "next" /\ info.status = 200 /\ info.readme # Absent
      /\ info.name # Missing
      /\ (info.description = Null \/ info.language = Null) ) =>
        outcome # "map"

\* C10: with the scheme and one trailing slash stripped and the path split on
\* "/", a path with at least two non-empty segments parses to its last two
\* segments in that order, and a path with fewer is a parse failure.
C10_LocatorParsing ==
    pc = "parsed" =>
        LET segs == Split(StripTrailingSlash(StripScheme(path)))
            filled == SelectSeq(segs, LAMBDA x : x # <<>>)
        IN IF Len(filled) >= 2
           THEN /\ parsed.ok
                /\ parsed.user = segs[Len(segs) - 1]
                /\ parsed.repo = segs[Len(segs)]
           ELSE ~parsed.ok

C12_IdImmutable ==
    /\ [](\A i, j \in 1 .. Len(store) : i # j => store[i]._id # store[j]._id)
    /\ [][ /\ Len(store') >= Len(store)
           /\ \A i \in 1 .. Len(store) : store'[i]._id = store[i]._id ]_vars

C12_Witness ==
    /\ pc = "next" /\ update /\ outcome = "updated"
    /\ res._id # NewId
    /\ DocById(store, res._id).stars # res.stars
    /\ Len(store) >= 2

\* C13: every step leaves the samples already in stars_history as they are
\* and in place, and adds at most one sample at the end.
C13_HistoryAppendOnly ==
    [][ /\ Len(stars_history') \in {Len(stars_history), Len(stars_history) + 1}
        /\ SubSeq(stars_history', 1, Len(stars_history)) = stars_history ]_vars

C13_Witness ==
    /\ Len(stars_history) >= 2
    /\ stars_history[1].repo_id = stars_history[2].repo_id
    /\ stars_history[1].stars # stars_history[2].stars

\* C14: a malformed watch-list entry fails alone: it never keeps a well-formed
\* entry of the watch-list from being processed in the run.
C14_MalformedEntrySkipped ==
    (pc = "crashed" /\ fatal = "watchlist") =>
        \A i \in 1 .. Len(watchlist) : ~HttpUrlValid(watchlist[i])

\* C15: after a successful update the document found by url = locator still
\* has that url (and its _id), so the next lookup by the locator finds it.
C15_UpdateKeepsUrl ==
    (pc = "next" /\ update /\ outcome = "updated") =>
        /\ DocById(store, res._id).url = repos[idx]
        /\ find_one(store, repos[idx])._id = res._id

\* C16: within a run the list is the watch-list in its order and does not
\* change; the steps of a pass follow each other (lookup, history append,
\* create_repo_in_db), the loop moves to the next entry only when the call
\* for the current one has returned, and it always moves on by one, whether
\* the pass failed or not.
C16_SequentialOrder ==
    [][ /\ run' = run =>
              /\ repos' = repos
              /\ idx' \in {idx, idx + 1}
              /\ idx' = idx + 1 <=> pc = "next"
        /\ run' # run =>
              /\ run' = run + 1
              /\ repos' \in {watchlist, <<>>}
              /\ idx' <= 1
              /\ pc' \in {"lookup", "idle", "crashed"}
        /\ pc = "lookup" => pc' \in {"history", "create"}
        /\ pc = "history" => pc' \in {"create", "crashed"}
        /\ pc = "create" => pc' = "next"
        /\ pc' = "lookup" => idx' \in 1 .. Len(repos') ]_vars

C16_Witness ==
    /\ pc = "create" /\ idx = 2 /\ repos = watchlist
    /\ repos[1] # repos[2]
    /\ log = <<[loc |-> repos[1], msg |-> "fetch"]>>

\* C17: every stored document and every sample has stars >= 0.
C17_StarsNonNegative ==
    /\ \A i \in 1 .. Len(store) : store[i].stars >= 0
    /\ \A i \in 1 .. Len(stars_history) : stars_history[i].stars >= 0

\* C18: every sample's repo_id is the _id of a document in the collection;
\* and a sample just appended (the newest one, when the append of an update
\* pass was acknowledged) carries the stars that document has at that time.
C18_HistoryRefersToRecord ==
    /\ \A i \in 1 .. Len(stars_history) :
          DocById(store, stars_history[i].repo_id) # NoDoc
    /\ (pc = "create" /\ update) =>
          /\ Len(stars_history) >= 1
          /\ LET s == stars_history[Len(stars_history)]
             IN /\ s.repo_id = res._id
                /\ s.stars = DocById(store, s.repo_id).stars

C18_Witness ==
    /\ pc = "create" /\ update
    /\ Len(stars_history) >= 2
    /\ Len(store) >= 2
    /\ stars_history[Len(stars_history)].repo_id # stars_history[1].repo_id

====
